---- MODULE Spec2Model ----
(***************************************************************************)
(* liveDataServer (src/liveData/__init__.py): a relay that subscribes to a *)
(* push feed of market quotes and, for every quote the feed hands to       *)
(* streamDataHandler, rewrites self.data and writes it as one JSON         *)
(* document to a fresh socket connection.                                  *)
(*                                                                         *)
(* Strings that the code transforms (symbols, through str.upper) are       *)
(* sequences of character codes; Python dicts are functions with a finite  *)
(* domain; a datetime is a record [day, sec] counted from the epoch; a     *)
(* JSON object is the set of its members.                                  *)
(*                                                                         *)
(* The feed client is the library's: its loop hands the quotes it receives *)
(* to the handler one at a time, in the order received, and logs an        *)
(* exception of the handler and goes on.                                   *)
(***************************************************************************)
EXTENDS Integers, Sequences, FiniteSets, TLC

VARIABLES
    symbols,      \* __init__'s `symbols` argument: a list of strings
    ctor,         \* position of __init__ in its body
    asset,        \* index of the `for asset in symbols` loop
    credentials,  \* self.credentials: "unset" or "loaded"
    subscribed,   \* the symbols the client holds a quote handler for
    feed,         \* self.client: "none", "created", "running", "stopped"
    runner,       \* the context executing client.run(): "none", "caller", "thread"
    thread,       \* the CryptoClient thread: "none" or "started"
    peer,         \* the hub at (host, port): "listening" or "refusing"
    queue,        \* quotes the feed has received and not yet handed over
    arrived,      \* number of quotes the feed has received
    pc,           \* position of streamDataHandler in its body
    data,         \* streamDataHandler's `data` argument
    selfData,     \* self.data
    before,       \* self.data as it was when the socket was created
    server,       \* the socket bound by the with statement
    openCount,    \* sockets of the process that hold a descriptor
    pending,      \* how the invocation is leaving: "none", "return", "NameError"
    failedAt,     \* the step of the invocation that raised: "none", "connect", "send"
    sent,         \* the document written by the invocation, {} if none
    result,       \* how the last invocation ended
    invocations,  \* number of handler invocations begun
    attempts,     \* number of connect attempts made
    log,          \* the quotes merged so far, in the order they were merged
    paced,        \* arrival number of the last quote received while the handler
                  \* slept after a quote for the same symbol, 0 if none
    timer,        \* time spent in sleep(1) so far
    calls,        \* what the invocation has called so far: how many times
                  \* connect, sendall and sleep
    argv,         \* the options of the command line: for --host and for --port
                  \* the value given, in a list that is empty without the option
    host,         \* self.host
    port,         \* self.port
    target        \* the address connect was last called with

vars == << symbols, ctor, asset, credentials, subscribed, feed, runner, thread,
           peer, queue, arrived, paced, pc, data, selfData, before, server, openCount,
           pending, failedAt, sent, result, invocations, attempts, log, timer,
           calls, argv, host, port, target >>

ctorVars == << symbols, ctor, asset, credentials, subscribed, feed, runner, thread,
               argv, host, port >>

handlerVars == << pc, data, selfData, before, server, openCount, pending,
                  failedAt, sent, result, invocations, attempts, log, timer,
                  calls, target >>

----------------------------------------------------------------------------
(* Bounds *)

\* Quotes the feed delivers in one run.
MaxEvents == 3

----------------------------------------------------------------------------
(* Strings *)

\* "B/U", "E/U": two pairs the exchange lists, written in upper case.
BTC == << 66, 47, 85 >>
ETH == << 69, 47, 85 >>

\* The pairs the exchange publishes quotes for.
Listed == { BTC, ETH }

\* str.upper on one character code.
UpperChar(c) == IF c >= 97 /\ c <= 122 THEN c - 32 ELSE c

\* str.upper: asset.upper() in the subscription loop.
Upper(s) == [ k \in 1..Len(s) |-> UpperChar(s[k]) ]

\* The argument lists __init__ is called with: empty, one lower-case pair,
\* two pairs in mixed case, one identifier without a separator ("bu").
SymbolLists ==
    { << >>,
      << << 98, 47, 117 >> >>,
      << BTC, << 101, 47, 117 >> >>,
      << << 98, 117 >> >> }

----------------------------------------------------------------------------
(* Quotes and the data packet *)

\* The event timestamps: 1700000000 and one second later.
Timestamps == { [day |-> 19675, sec |-> 80000], [day |-> 19675, sec |-> 80001] }

\* The quote objects the feed can deliver for the subscribed pairs.
Quotes ==
    [ symbol : subscribed \cap Listed, timestamp : Timestamps,
      ask_price : { 50001 }, ask_size : { 1 },
      bid_price : { 50000 }, bid_size : { 2 } ]

\* datetime.timestamp of an aware UTC datetime: seconds since the epoch.
Timestamp(dt) == dt.day * 86400 + dt.sec

\* self.data = {}
EmptyDict == [ k \in {} |-> {} ]

\* A sub-dictionary with the two prices under each other's key.
Entry_Swapped(d) ==
    ( "name" :> d.symbol @@ "time" :> Timestamp(d.timestamp) @@
      "ask price" :> d.bid_price @@ "ask size" :> d.ask_size @@
      "bid price" :> d.ask_price @@ "bid size" :> d.bid_size )

\* The sub-dictionary built for one quote.
Entry(d) ==
    ( "name" :> d.symbol @@ "time" :> Timestamp(d.timestamp) @@
      "ask price" :> d.ask_price @@ "ask size" :> d.ask_size @@
      "bid price" :> d.bid_price @@ "bid size" :> d.bid_size )

\* A merge that keeps the entry of a symbol when the quote is older than it.
MergedData_KeepNewest(sd, d) ==
    IF /\ "Live Market Data" \in DOMAIN sd
       /\ d.symbol \in DOMAIN sd["Live Market Data"]
       /\ sd["Live Market Data"][d.symbol]["time"] > Timestamp(d.timestamp)
    THEN sd
    ELSE ( "Live Market Data" :> ( d.symbol :> Entry(d) ) ) @@ sd

\* A merge that writes the symbol's entry into the sub-dictionary and keeps
\* the entries of the other symbols.
MergedData_Retain(sd, d) ==
    IF "Live Market Data" \in DOMAIN sd
    THEN ( "Live Market Data" :>
             ( ( d.symbol :> Entry(d) ) @@ sd["Live Market Data"] ) ) @@ sd
    ELSE ( "Live Market Data" :> ( d.symbol :> Entry(d) ) ) @@ sd

\* self.data["Live Market Data"] = { str(data.symbol): {...} }
MergedData(sd, d) ==
    ( "Live Market Data" :> ( d.symbol :> Entry(d) ) ) @@ sd

\* json.dumps of a dict whose values are scalars: a JSON object, the set of
\* its members, every member a name and a value.
SerializeScalars(e) == { << k, e[k] >> : k \in DOMAIN e }

\* json.dumps of a dict whose values are dicts of scalars.
SerializeObjects(m) == { << k, SerializeScalars(m[k]) >> : k \in DOMAIN m }

\* json.dumps of self.data, a dict whose values are dicts of dicts of scalars.
Serialize(sd) == { << k, SerializeObjects(sd[k]) >> : k \in DOMAIN sd }

----------------------------------------------------------------------------
(* Sockets *)

\* socket(AF_INET, SOCK_STREAM)
NewSocket == [ closed |-> FALSE, connected |-> FALSE, closeCalls |-> 0 ]

\* socket.close()
Close(s) == [ s EXCEPT !.closed = TRUE, !.closeCalls = @ + 1 ]

\* An exit that closes the socket whether or not it is closed already.
SocketExit_Unguarded(s) == Close(s)

\* socket.__exit__, run when the with block is left: close unless closed.
SocketExit(s) == IF s.closed THEN s ELSE Close(s)

\* Descriptors held after socket s went through one close or exit step to s2.
Released(s, s2) == IF ~s.closed /\ s2.closed THEN 1 ELSE 0

\* The names the module binds at import time that the handler calls.
ModuleNames ==
    { "socket", "serialize", "sleep", "datetime", "Thread",
      "basicConfig", "getLogger", "information", "debugging" }

\* Calling exception(...) in an except block: the name is looked up in the
\* module; the call is followed by `return error` only if the lookup succeeds.
CallException == IF "exception" \in ModuleNames THEN "return" ELSE "NameError"

\* sleep(1)
SleepSeconds == 1

\* A handler that yields to the loop while it writes and while it waits.
LoopFree_Reentrant == pc \in { "idle", "send", "sleep" }

\* The handler is a coroutine without an await: once the feed's loop has
\* entered it, the loop runs nothing else until it has returned or raised.
LoopFree == pc = "idle"

----------------------------------------------------------------------------
(* Initial state: liveDataServer(...) is about to be called.  The options
   of the command line are varied for the lists of one symbol. *)

\* The defaults of --host and --port, and of __init__'s host parameter.
DefaultHost == "127.0.0.1"

DefaultPort == 65535

\* A command line without --host and without --port.
NoOptions == [ host |-> << >>, port |-> << >> ]

\* The command lines: no option, or --host 10.0.0.5 --port 8080.
Launches ==
    { NoOptions,
      [ host |-> << "10.0.0.5" >>, port |-> << << 56, 48, 56, 48 >> >> ] }

\* int(s) of a string of decimal digits.
RECURSIVE ParseInt(_)
ParseInt(s) ==
    IF s = << >>
    THEN 0
    ELSE 10 * ParseInt(SubSeq(s, 1, Len(s) - 1)) + (s[Len(s)] - 48)

\* arguments.host after parse_args.
ParsedHost(a) == IF a.host = << >> THEN DefaultHost ELSE a.host[1]

\* int(arguments.port) after parse_args.
ParsedPort(a) == IF a.port = << >> THEN DefaultPort ELSE ParseInt(a.port[1])

\* The host __init__ is called with: its default, the call passing only
\* symbols and port.
CallHost(a) == DefaultHost

\* The port __init__ is called with.
CallPort(a) == ParsedPort(a)

\* No connect called yet.
NoAddress == [ host |-> "unset", port |-> 0 ]

\* Nothing called yet by the invocation.
NoCalls == [ connect |-> 0, sendall |-> 0, sleep |-> 0 ]

Init ==
    /\ symbols \in SymbolLists
    /\ ctor = "new"
    /\ asset = 1
    /\ credentials = "unset"
    /\ subscribed = {}
    /\ feed = "none"
    /\ runner = "none"
    /\ thread = "none"
    /\ peer \in { "listening", "refusing" }
    /\ queue = << >>
    /\ arrived = 0
    /\ paced = 0
    /\ pc = "idle"
    /\ data = << >>
    /\ selfData = EmptyDict
    /\ before = EmptyDict
    /\ server = NewSocket
    /\ openCount = 0
    /\ pending = "none"
    /\ failedAt = "none"
    /\ sent = {}
    /\ result = "none"
    /\ invocations = 0
    /\ attempts = 0
    /\ log = << >>
    /\ timer = 0
    /\ calls = NoCalls
    /\ argv \in IF Len(symbols) = 1 THEN Launches ELSE { NoOptions }
    /\ host = "unset"
    /\ port = 0
    /\ target = NoAddress

----------------------------------------------------------------------------
(* __init__ *)

\* Lines 67-77: the runtime constants.
SetConstants ==
    /\ ctor = "new"
    /\ host' = CallHost(argv)
    /\ port' = CallPort(argv)
    /\ selfData' = EmptyDict
    /\ ctor' = "credentials"
    /\ UNCHANGED << symbols, asset, credentials, subscribed, feed, runner, thread,
                    peer, queue, arrived, paced, pc, data, before, server, openCount,
                    pending, failedAt, sent, result, invocations, attempts, log,
                    timer, calls, argv, target >>

\* Line 81: queryCredentials returns the key pair.
QueryCredentials ==
    /\ ctor = "credentials"
    /\ credentials' = "loaded"
    /\ ctor' = "client"
    /\ UNCHANGED << symbols, asset, subscribed, feed, runner, thread >>
    /\ UNCHANGED << peer, queue, arrived, paced >>
    /\ UNCHANGED << argv, host, port >>
    /\ UNCHANGED handlerVars

\* A failure of queryCredentials that is caught, after which __init__ goes on.
QueryCredentialsFails_Swallowed ==
    /\ ctor = "credentials"
    /\ ctor' = "client"
    /\ UNCHANGED << symbols, asset, credentials, subscribed, feed, runner, thread >>
    /\ UNCHANGED << peer, queue, arrived, paced >>
    /\ UNCHANGED << argv, host, port >>
    /\ UNCHANGED handlerVars

\* Line 81: queryCredentials raises; the exception leaves __init__.
QueryCredentialsFails ==
    /\ ctor = "credentials"
    /\ ctor' = "failed"
    /\ UNCHANGED << symbols, asset, credentials, subscribed, feed, runner, thread >>
    /\ UNCHANGED << peer, queue, arrived, paced >>
    /\ UNCHANGED << argv, host, port >>
    /\ UNCHANGED handlerVars

\* Lines 84-85: the live data client.
CreateClient ==
    /\ ctor = "client"
    /\ feed' = "created"
    /\ asset' = 1
    /\ ctor' = "subscribe"
    /\ UNCHANGED << symbols, credentials, subscribed, runner, thread >>
    /\ UNCHANGED << peer, queue, arrived, paced >>
    /\ UNCHANGED << argv, host, port >>
    /\ UNCHANGED handlerVars

\* Lines 89-91: one turn of the loop over symbols.
SubscribeQuotes ==
    /\ ctor = "subscribe"
    /\ asset <= Len(symbols)
    /\ subscribed' = subscribed \cup { Upper(symbols[asset]) }
    /\ asset' = asset + 1
    /\ UNCHANGED << symbols, ctor, credentials, feed, runner, thread >>
    /\ UNCHANGED << peer, queue, arrived, paced >>
    /\ UNCHANGED << argv, host, port >>
    /\ UNCHANGED handlerVars

\* A start that does not wait for the loop over symbols to end.
CallRun_Early ==
    /\ ctor = "subscribe"
    /\ feed' = "running"
    /\ runner' = "caller"
    /\ ctor' = "run"
    /\ UNCHANGED << symbols, asset, credentials, subscribed, thread >>
    /\ UNCHANGED << peer, queue, arrived, paced >>
    /\ UNCHANGED << argv, host, port >>
    /\ UNCHANGED handlerVars

\* A start that refuses a client without subscriptions.
CallRun_NonEmpty ==
    /\ ctor = "subscribe"
    /\ asset > Len(symbols)
    /\ subscribed # {}
    /\ feed' = "running"
    /\ runner' = "caller"
    /\ ctor' = "run"
    /\ UNCHANGED << symbols, asset, credentials, subscribed, thread >>
    /\ UNCHANGED << peer, queue, arrived, paced >>
    /\ UNCHANGED << argv, host, port >>
    /\ UNCHANGED handlerVars

\* Lines 95-98: the loop over symbols is over; the Thread constructor's
\* target argument, self.client.run(), is evaluated by the caller.
CallRun ==
    /\ ctor = "subscribe"
    /\ asset > Len(symbols)
    /\ feed' = "running"
    /\ runner' = "caller"
    /\ ctor' = "run"
    /\ UNCHANGED << symbols, asset, credentials, subscribed, thread >>
    /\ UNCHANGED << peer, queue, arrived, paced >>
    /\ UNCHANGED << argv, host, port >>
    /\ UNCHANGED handlerVars

\* client.run() comes back (the feed was stopped or interrupted).
RunReturns ==
    /\ ctor = "run"
    /\ LoopFree
    /\ feed' = "stopped"
    /\ runner' = "none"
    /\ ctor' = "thread"
    /\ UNCHANGED << symbols, asset, credentials, subscribed, thread >>
    /\ UNCHANGED << peer, queue, arrived, paced >>
    /\ UNCHANGED << argv, host, port >>
    /\ UNCHANGED handlerVars

\* Lines 95-98: Thread(target=<what run() returned>).start(), then __init__
\* returns.
StartThread ==
    /\ ctor = "thread"
    /\ thread' = "started"
    /\ ctor' = "returned"
    /\ UNCHANGED << symbols, asset, credentials, subscribed, feed, runner >>
    /\ UNCHANGED << peer, queue, arrived, paced >>
    /\ UNCHANGED << argv, host, port >>
    /\ UNCHANGED handlerVars

----------------------------------------------------------------------------
(* The environment: the feed and the hub *)

\* The feed receives a quote for a subscribed pair.
Arrive ==
    /\ feed = "running"
    /\ arrived < MaxEvents
    /\ \E q \in Quotes :
           /\ queue' = Append(queue, q)
           /\ paced' = IF pc = "sleep" /\ timer < SleepSeconds /\ q.symbol = data.symbol
                       THEN arrived + 1
                       ELSE paced
    /\ arrived' = arrived + 1
    /\ UNCHANGED peer
    /\ UNCHANGED ctorVars
    /\ UNCHANGED handlerVars

\* The hub starts or stops accepting connections.
PeerChange ==
    /\ feed = "running"
    /\ peer' = IF peer = "listening" THEN "refusing" ELSE "listening"
    /\ UNCHANGED << queue, arrived, paced >>
    /\ UNCHANGED ctorVars
    /\ UNCHANGED handlerVars

----------------------------------------------------------------------------
(* streamDataHandler *)

\* A hand-over that keeps only the newest of the quotes that waited.
Invoke_Coalescing ==
    /\ feed = "running"
    /\ LoopFree
    /\ queue # << >>
    /\ data' = queue[Len(queue)]
    /\ queue' = << >>
    /\ invocations' = invocations + 1
    /\ pending' = "none"
    /\ failedAt' = "none"
    /\ sent' = {}
    /\ pc' = "merge"
    /\ UNCHANGED << selfData, before, server, openCount, result, attempts, log, timer >>
    /\ UNCHANGED << peer, arrived, paced >>
    /\ calls' = NoCalls
    /\ UNCHANGED target
    /\ UNCHANGED ctorVars

\* Lines 101-108: the feed's loop calls the handler with the next quote.
Invoke ==
    /\ feed = "running"
    /\ LoopFree
    /\ queue # << >>
    /\ data' = Head(queue)
    /\ queue' = Tail(queue)
    /\ invocations' = invocations + 1
    /\ pending' = "none"
    /\ failedAt' = "none"
    /\ sent' = {}
    /\ pc' = "merge"
    /\ UNCHANGED << selfData, before, server, openCount, result, attempts, log, timer >>
    /\ UNCHANGED << peer, arrived, paced >>
    /\ calls' = NoCalls
    /\ UNCHANGED target
    /\ UNCHANGED ctorVars

\* Lines 111-122.
Merge ==
    /\ pc = "merge"
    /\ selfData' = MergedData(selfData, data)
    /\ log' = Append(log, data)
    /\ pc' = "socket"
    /\ UNCHANGED << data, before, server, openCount, pending, failedAt, sent,
                    result, invocations, attempts, timer >>
    /\ UNCHANGED << peer, queue, arrived, paced >>
    /\ UNCHANGED calls
    /\ UNCHANGED target
    /\ UNCHANGED ctorVars

\* Line 127: with socket(AF_INET, SOCK_STREAM) as server.
OpenSocket ==
    /\ pc = "socket"
    /\ server' = NewSocket
    /\ openCount' = openCount + 1
    /\ before' = selfData
    /\ pc' = "connect"
    /\ UNCHANGED << data, selfData, pending, failedAt, sent, result,
                    invocations, attempts, log, timer >>
    /\ UNCHANGED << peer, queue, arrived, paced >>
    /\ UNCHANGED calls
    /\ UNCHANGED target
    /\ UNCHANGED ctorVars

\* Lines 132-134: connect succeeds.
Connect ==
    /\ pc = "connect"
    /\ peer = "listening"
    /\ server' = [ server EXCEPT !.connected = TRUE ]
    /\ attempts' = attempts + 1
    /\ pc' = "send"
    /\ UNCHANGED << data, selfData, before, openCount, pending, failedAt, sent,
                    result, invocations, log, timer >>
    /\ UNCHANGED << peer, queue, arrived, paced >>
    /\ calls' = [ calls EXCEPT !.connect = @ + 1 ]
    /\ target' = [ host |-> host, port |-> port ]
    /\ UNCHANGED ctorVars

\* Lines 132-136: connect raises.
ConnectFails ==
    /\ pc = "connect"
    /\ peer = "refusing"
    /\ attempts' = attempts + 1
    /\ failedAt' = "connect"
    /\ pc' = "connect_except"
    /\ UNCHANGED << data, selfData, before, server, openCount, pending, sent,
                    result, invocations, log, timer >>
    /\ UNCHANGED << peer, queue, arrived, paced >>
    /\ calls' = [ calls EXCEPT !.connect = @ + 1 ]
    /\ target' = [ host |-> host, port |-> port ]
    /\ UNCHANGED ctorVars

\* An except branch that goes back to connect.
ConnectExcept_Retry ==
    /\ pc = "connect_except"
    /\ pending' = CallException
    /\ pc' = "connect"
    /\ UNCHANGED << data, selfData, before, server, openCount, failedAt, sent,
                    result, invocations, attempts, log, timer >>
    /\ UNCHANGED << peer, queue, arrived, paced >>
    /\ UNCHANGED calls
    /\ UNCHANGED target
    /\ UNCHANGED ctorVars

\* Lines 136-139: exception(...); return error.  Either way the with block
\* is left.
ConnectExcept ==
    /\ pc = "connect_except"
    /\ pending' = CallException
    /\ pc' = "exit"
    /\ UNCHANGED << data, selfData, before, server, openCount, failedAt, sent,
                    result, invocations, attempts, log, timer >>
    /\ UNCHANGED << peer, queue, arrived, paced >>
    /\ UNCHANGED calls
    /\ UNCHANGED target
    /\ UNCHANGED ctorVars

\* Lines 144-148: sendall writes the serialized packet.
SendAll ==
    /\ pc = "send"
    /\ peer = "listening"
    /\ sent' = Serialize(selfData)
    /\ pc' = "finally"
    /\ UNCHANGED << data, selfData, before, server, openCount, pending, failedAt,
                    result, invocations, attempts, log, timer >>
    /\ UNCHANGED << peer, queue, arrived, paced >>
    /\ calls' = [ calls EXCEPT !.sendall = @ + 1 ]
    /\ UNCHANGED target
    /\ UNCHANGED ctorVars

\* Lines 144-150: sendall raises.
SendAllFails ==
    /\ pc = "send"
    /\ peer = "refusing"
    /\ failedAt' = "send"
    /\ pc' = "send_except"
    /\ UNCHANGED << data, selfData, before, server, openCount, pending, sent,
                    result, invocations, attempts, log, timer >>
    /\ UNCHANGED << peer, queue, arrived, paced >>
    /\ calls' = [ calls EXCEPT !.sendall = @ + 1 ]
    /\ UNCHANGED target
    /\ UNCHANGED ctorVars

\* An except branch that takes the quote of the failed upload out of self.data.
SendExcept_Rollback ==
    /\ pc = "send_except"
    /\ pending' = CallException
    /\ selfData' = EmptyDict
    /\ pc' = "finally"
    /\ UNCHANGED << data, before, server, openCount, failedAt, sent,
                    result, invocations, attempts, log, timer >>
    /\ UNCHANGED << peer, queue, arrived, paced >>
    /\ UNCHANGED calls
    /\ UNCHANGED target
    /\ UNCHANGED ctorVars

\* Lines 150-154: exception(...); return error.  Either way the finally
\* clause runs next.
SendExcept ==
    /\ pc = "send_except"
    /\ pending' = CallException
    /\ pc' = "finally"
    /\ UNCHANGED << data, selfData, before, server, openCount, failedAt, sent,
                    result, invocations, attempts, log, timer >>
    /\ UNCHANGED << peer, queue, arrived, paced >>
    /\ UNCHANGED calls
    /\ UNCHANGED target
    /\ UNCHANGED ctorVars

\* A close after which sleep(1) is called only when nothing was raised.
FinallyClose_NoPaceOnFailure ==
    /\ pc = "finally"
    /\ server' = Close(server)
    /\ openCount' = openCount - Released(server, server')
    /\ timer' = 0
    /\ pc' = IF failedAt = "none" THEN "sleep" ELSE "exit"
    /\ UNCHANGED << data, selfData, before, pending, failedAt, sent, result,
                    invocations, attempts, log >>
    /\ UNCHANGED << peer, queue, arrived, paced >>
    /\ UNCHANGED calls
    /\ UNCHANGED target
    /\ UNCHANGED ctorVars

\* Lines 157-158: server.close(), and sleep(1) begins.
FinallyClose ==
    /\ pc = "finally"
    /\ server' = Close(server)
    /\ openCount' = openCount - Released(server, server')
    /\ timer' = 0
    /\ pc' = "sleep"
    /\ UNCHANGED << data, selfData, before, pending, failedAt, sent, result,
                    invocations, attempts, log >>
    /\ UNCHANGED << peer, queue, arrived, paced >>
    /\ UNCHANGED calls
    /\ UNCHANGED target
    /\ UNCHANGED ctorVars

\* Time passes while the handler sleeps.
Tick ==
    /\ pc = "sleep"
    /\ timer < SleepSeconds
    /\ timer' = timer + 1
    /\ UNCHANGED << pc, data, selfData, before, server, openCount, pending,
                    failedAt, sent, result, invocations, attempts, log >>
    /\ UNCHANGED << peer, queue, arrived, paced >>
    /\ UNCHANGED calls
    /\ UNCHANGED target
    /\ UNCHANGED ctorVars

\* A sleep that returns at once.
Sleep_Immediate ==
    /\ pc = "sleep"
    /\ pc' = "exit"
    /\ UNCHANGED << data, selfData, before, server, openCount, pending, failedAt,
                    sent, result, invocations, attempts, log, timer >>
    /\ UNCHANGED << peer, queue, arrived, paced >>
    /\ calls' = [ calls EXCEPT !.sleep = @ + 1 ]
    /\ UNCHANGED target
    /\ UNCHANGED ctorVars

\* Line 159: sleep(1) returns.
Sleep ==
    /\ pc = "sleep"
    /\ timer >= SleepSeconds
    /\ pc' = "exit"
    /\ UNCHANGED << data, selfData, before, server, openCount, pending, failedAt,
                    sent, result, invocations, attempts, log, timer >>
    /\ UNCHANGED << peer, queue, arrived, paced >>
    /\ calls' = [ calls EXCEPT !.sleep = @ + 1 ]
    /\ UNCHANGED target
    /\ UNCHANGED ctorVars

\* Line 127: the with block is left (socket.__exit__) and the invocation
\* ends: it returns None, returns the error, or raises.
WithExit ==
    /\ pc = "exit"
    /\ server' = SocketExit(server)
    /\ openCount' = openCount - Released(server, server')
    /\ result' = CASE pending = "none" -> "None"
                   [] pending = "return" -> "error"
                   [] pending = "NameError" -> "raised NameError"
    /\ pc' = "idle"
    /\ UNCHANGED << data, selfData, before, pending, failedAt, sent,
                    invocations, attempts, log, timer >>
    /\ UNCHANGED << peer, queue, arrived, paced >>
    /\ UNCHANGED calls
    /\ UNCHANGED target
    /\ UNCHANGED ctorVars

----------------------------------------------------------------------------

Next ==
    \/ SetConstants
    \/ QueryCredentials
    \/ QueryCredentialsFails
    \/ CreateClient
    \/ SubscribeQuotes
    \/ CallRun
    \/ RunReturns
    \/ StartThread
    \/ Arrive
    \/ PeerChange
    \/ Invoke
    \/ Merge
    \/ OpenSocket
    \/ Connect
    \/ ConnectFails
    \/ ConnectExcept
    \/ SendAll
    \/ SendAllFails
    \/ SendExcept
    \/ FinallyClose
    \/ Tick
    \/ Sleep
    \/ WithExit

Spec == Init /\ [][Next]_vars

\* __init__ runs in the calling thread, statement after statement.
CtorStep ==
    \/ SetConstants
    \/ QueryCredentials
    \/ CreateClient
    \/ SubscribeQuotes
    \/ CallRun
    \/ StartThread

\* The feed's loop hands over the next quote when it is free, every statement
\* of the handler is followed by the next, and sleep(1) returns.
HandlerStep ==
    \/ Invoke
    \/ Merge
    \/ OpenSocket
    \/ Connect
    \/ ConnectFails
    \/ ConnectExcept
    \/ SendAll
    \/ SendAllFails
    \/ SendExcept
    \/ FinallyClose
    \/ Tick
    \/ Sleep
    \/ WithExit

FairSpec == Spec /\ WF_vars(CtorStep) /\ WF_vars(HandlerStep)

----------------------------------------------------------------------------
(* Properties *)

\* The symbol-to-quote mapping held in self.data.
Snapshot ==
    IF "Live Market Data" \in DOMAIN selfData
    THEN selfData["Live Market Data"]
    ELSE EmptyDict

\* The last quote of the log that is for symbol s.
LastFor(s) ==
    log[ CHOOSE k \in 1..Len(log) :
             /\ log[k].symbol = s
             /\ \A j \in (k + 1)..Len(log) : log[j].symbol # s ]

\* The symbols of the quotes merged so far.
SymbolsSeen == { log[k].symbol : k \in 1..Len(log) }

\* C1, as stated: after any sequence of handled quotes the snapshot holds,
\* for every symbol that occurred in the sequence, the last quote handled
\* for that symbol.
C1_LastWriteWinsPerSymbol ==
    \A s \in SymbolsSeen :
        s \in DOMAIN Snapshot /\ Snapshot[s] = Entry(LastFor(s))

\* C1, amended: after any sequence of handled quotes the snapshot holds the
\* last quote handled, under its symbol and with its own values, whatever
\* the timestamps of the quotes handled before it.
C1_LastWriteWins ==
    log # << >> =>
        LET q == log[Len(log)]
        IN  /\ q.symbol \in DOMAIN Snapshot
            /\ Snapshot[q.symbol] = Entry(q)
            /\ Snapshot[q.symbol]["time"] = q.timestamp.day * 86400 + q.timestamp.sec

\* C1 witness: BTC, then ETH, then an older BTC quote have been handled and
\* the snapshot shows the older, last handled one.
C1_Witness ==
    /\ Len(log) = 3
    /\ log[1].symbol = BTC /\ log[1].timestamp.sec = 80001
    /\ log[2].symbol = ETH
    /\ log[3].symbol = BTC /\ log[3].timestamp.sec = 80000
    /\ pc = "idle"
    /\ Snapshot[BTC]["time"] = 1700000000

\* C2, as stated: the snapshot contains an entry for every symbol handled
\* so far.
C2_AllSymbolsRetained == SymbolsSeen \subseteq DOMAIN Snapshot

\* C2, amended: merges for distinct symbols replace each other; after any
\* number of handler invocations the snapshot contains exactly one symbol
\* entry, that of the quote handled last.
C2_OnlyLastSymbolRetained ==
    log # << >> => DOMAIN Snapshot = { log[Len(log)].symbol }

\* C2 witness: two invocations for two distinct symbols have ended and the
\* snapshot holds one entry.
C2_Witness ==
    /\ Len(log) = 2
    /\ log[1].symbol # log[2].symbol
    /\ pc = "idle"
    /\ Cardinality(DOMAIN Snapshot) = 1

\* C3: every send attempt closes its socket exactly once, whichever way the
\* with block is left, and an invocation that has ended holds no socket open.
C3_ClosedExactlyOnce ==
    /\ server.closeCalls <= 1
    /\ pc \in { "sleep", "idle" } /\ invocations > 0 =>
           server.closed /\ server.closeCalls = 1
    /\ pc = "idle" => openCount = 0

\* C3 witness: an invocation whose write failed has ended, after one whose
\* connect failed.
C3_Witness ==
    /\ pc = "idle"
    /\ invocations >= 2
    /\ failedAt = "send"
    /\ server.closeCalls = 1
    /\ openCount = 0

\* C4, as stated: a handler invocation whose connect failed ends by returning
\* the error, has written nothing, and leaves self.data as it was before the
\* connect attempt.
C4_ConnectErrorReturned ==
    pc = "idle" /\ failedAt = "connect" =>
        /\ result = "error"
        /\ sent = {}
        /\ ~server.connected
        /\ selfData = before

\* C5, as stated: no exception escapes a handler invocation whose connect or
\* write failed, it ends by returning the error; and an invocation that
\* connected and wrote while the hub was accepting has delivered self.data.
C5_FailureNeverEscapes ==
    /\ pc = "idle" /\ failedAt \in { "connect", "send" } => result = "error"
    /\ pc \in { "finally", "sleep" } /\ failedAt = "none" => sent = Serialize(selfData)

\* C6: at most one socket of the server is open at any moment.
C6_AtMostOneConnection == openCount <= 1

\* C6 witness: the socket of one invocation is connected while quotes for
\* both symbols wait for the handler.
C6_Witness ==
    /\ openCount = 1
    /\ server.connected
    /\ ~server.closed
    /\ { queue[k].symbol : k \in 1..Len(queue) } = { BTC, ETH }

\* The value of the member called name in a decoded JSON object.
Value(obj, name) == ( CHOOSE m \in obj : m[1] = name )[2]

\* The names of the members of a decoded JSON object.
Names(obj) == { m[1] : m \in obj }

\* C7: the document an invocation writes has the one top-level member
\* "Live Market Data", whose object has the one member keyed by the symbol
\* of the invocation's quote, whose six fields are the quote's values.
C7_SingleEntryFraming ==
    sent # {} =>
        /\ Cardinality(sent) = 1
        /\ Names(sent) = { "Live Market Data" }
        /\ LET market == Value(sent, "Live Market Data")
           IN  /\ Cardinality(market) = 1
               /\ Names(market) = { data.symbol }
               /\ LET e == Value(market, data.symbol)
                  IN  /\ Cardinality(e) = 6
                      /\ Names(e) = { "name", "time", "ask price", "ask size",
                                      "bid price", "bid size" }
                      /\ Value(e, "name") = data.symbol
                      /\ Value(e, "time") =
                             data.timestamp.day * 86400 + data.timestamp.sec
                      /\ Value(e, "ask price") = data.ask_price
                      /\ Value(e, "ask size") = data.ask_size
                      /\ Value(e, "bid price") = data.bid_price
                      /\ Value(e, "bid size") = data.bid_size

\* C7 witness: a document was written for a quote handled after a quote of
\* the other symbol, while a further quote of that other symbol waits.
C7_Witness ==
    /\ sent # {}
    /\ Len(log) >= 2
    /\ log[Len(log) - 1].symbol # data.symbol
    /\ queue # << >>
    /\ Head(queue).symbol # data.symbol
    /\ Value(Value(Value(sent, "Live Market Data"), data.symbol), "time") = 1700000001

\* C8: pacing delays sends and drops none.  Between invocations the number
\* of connect attempts is the number of quotes handed to the handler, which
\* is the number of quotes received less those still waiting; and the n-th
\* quote received gets the n-th attempt unless the feed is stopped first.
C8_PacingDropsNothing ==
    /\ [](pc = "idle" => attempts = invocations /\ invocations = arrived - Len(queue))
    /\ \A n \in 1..MaxEvents :
           (arrived >= n) ~> (attempts >= n \/ feed = "stopped")

\* C8 witness: a quote that was received while the handler slept after a
\* quote of the same symbol has had its own attempt, which connected, wrote
\* and closed.
C8_Witness ==
    /\ paced > 0
    /\ attempts = paced
    /\ pc = "idle"
    /\ failedAt = "none"
    /\ sent # {}
    /\ server.connected /\ server.closeCalls = 1

\* C9, as stated: the feed's run loop is started on the background thread
\* and the constructor returns while it runs: whenever the loop is running
\* it is the thread that runs it, and the caller is not inside client.run().
C9_LoopRunsInBackground ==
    feed = "running" => runner = "thread" /\ ctor # "run"

\* What the code does instead: while the loop runs, the constructor has not
\* returned, and the thread starts only after the loop has ended.
C9_CallerBlocked ==
    /\ feed = "running" => ctor = "run" /\ runner = "caller" /\ thread = "none"
    /\ ctor = "returned" => feed = "stopped"

\* An identifier of the "BASE/QUOTE" shape: letters, one separator, letters.
WellFormed(s) ==
    \E k \in 2..(Len(s) - 1) :
        /\ s[k] = 47
        /\ \A j \in (1..Len(s)) \ { k } : UpperChar(s[j]) \in 65..90

\* The symbol list is empty or holds a malformed identifier.
BadSymbolList ==
    symbols = << >> \/ \E k \in 1..Len(symbols) : ~WellFormed(symbols[k])

\* C10, as stated: with an empty symbol list, or one holding a malformed
\* identifier, no feed loop is started.
C10_BadListNeverRuns == BadSymbolList => feed # "running"

\* C10, amended: the constructor rejects no symbol list.  Once the client
\* exists, every listed identifier is subscribed in upper case, whatever its
\* shape and none for an empty list, and then the feed loop is started.
C10_NoListIsRejected ==
    /\ [](feed = "running" =>
             /\ \A k \in 1..Len(symbols) :
                    \E s \in subscribed :
                        /\ Len(s) = Len(symbols[k])
                        /\ \A j \in 1..Len(s) :
                               /\ s[j] \notin 97..122
                               /\ s[j] \in { symbols[k][j], symbols[k][j] - 32 }
             /\ Cardinality(subscribed) <= Len(symbols))
    /\ (feed = "created") ~> (feed = "running")

\* C10 witness: the feed loop runs for the empty symbol list.
C10_Witness == symbols = << >> /\ feed = "running" /\ subscribed = {}

\* C11: a failure of the credential provider is fatal at startup.  Unless the
\* credentials were resolved, no feed client exists, no symbol is subscribed,
\* no feed loop and no thread is started, the handler never runs and no
\* socket is ever opened; and a constructor that ended in error is one whose
\* credentials were not resolved.
C11_CredentialFailureIsFatal ==
    /\ credentials = "unset" =>
           /\ feed = "none" /\ subscribed = {}
           /\ runner = "none" /\ thread = "none"
           /\ invocations = 0 /\ attempts = 0 /\ openCount = 0
           /\ ctor \in { "new", "credentials", "failed" }
    /\ ctor = "failed" => credentials = "unset"

\* C11 witness: queryCredentials has raised and the constructor has ended in
\* error.
C11_Witness == ctor = "failed" /\ credentials = "unset" /\ feed = "none"

\* The invocation has ended.
Ended == pc = "idle" /\ invocations > 0

\* The invocation's sendall returned without raising.
WriteCompleted == calls.sendall = 1 /\ failedAt = "none"

\* C12 as stated: an ended invocation has slept if and only if its write
\* completed; after a failed connect or a failed write it has not slept.
C12_PacedOnSuccessOnly ==
    Ended => /\ calls.sleep \in { 0, 1 }
             /\ calls.sleep = 1 <=> WriteCompleted

\* C12, amended: an ended invocation has slept, once, if and only if its
\* connect succeeded, whether sendall then returned or raised; after a failed
\* connect it has not slept.
C12_PacedAfterEveryWriteAttempt ==
    /\ calls.sleep \in { 0, 1 }
    /\ Ended => /\ calls.sleep = 1 <=> failedAt # "connect"
                /\ calls.sleep = 1 <=> calls.sendall = 1
                /\ WriteCompleted => calls.sleep = 1

\* C12 witness: an invocation whose sendall raised has ended, having slept.
C12_Witness == Ended /\ failedAt = "send" /\ calls.sleep = 1

\* The invocation holds a socket it has not closed yet.
Connecting == pc \in { "connect", "connect_except", "send", "send_except", "finally" }

\* C13: while the handler sleeps its socket is closed and the process holds
\* no open socket; and a socket opened after an invocation that wrote and
\* returned None is opened no sooner than SleepSeconds after that
\* invocation's close.
C13_ClosedThenPaced ==
    /\ pc = "sleep" => server.closed /\ openCount = 0
    /\ pc = "sleep" /\ timer < SleepSeconds => calls.sleep = 0
    /\ Connecting /\ result = "None" => /\ timer >= SleepSeconds
                                         /\ invocations >= 2

\* C13 witness: the second invocation is about to connect, the first having
\* written, closed and slept.
C13_Witness ==
    /\ pc = "connect" /\ invocations = 2 /\ result = "None"
    /\ timer = SleepSeconds /\ openCount = 1

\* C14: an invocation calls connect at most once and sendall at most once;
\* after a failed connect it calls sendall never, after a failed sendall it
\* calls neither again; an ended invocation has called connect exactly once,
\* so that the connects made are as many as the invocations.
C14_NoRetry ==
    /\ calls.connect \in { 0, 1 }
    /\ calls.sendall \in { 0, 1 }
    /\ calls.sendall <= calls.connect
    /\ failedAt = "connect" => calls.connect = 1 /\ calls.sendall = 0 /\ sent = {}
    /\ failedAt = "send" => calls.connect = 1 /\ calls.sendall = 1 /\ sent = {}
    /\ Ended => calls.connect = 1 /\ attempts = invocations
    /\ ~Ended /\ invocations > 0 => attempts = invocations - 1 + calls.connect

\* C14 witness: the second invocation has ended after a failed connect, the
\* first after a failed sendall, and two connects were made in all.
C14_Witness ==
    /\ Ended /\ invocations = 2 /\ attempts = 2
    /\ failedAt = "connect" /\ calls.sendall = 0
    /\ calls.sleep = 0 /\ timer = SleepSeconds /\ result # "None"

\* C15: the quote is merged before the socket is created, and from the merge
\* on, through connect, sendall and their failures to the end of the
\* invocation and until the next one merges, self.data holds the entry of
\* the quote the handler was last called with, as it was when the socket
\* was created.
C15_MergedBeforeSendAndKept ==
    /\ pc = "merge" => /\ openCount = 0
                       /\ Len(log) = invocations - 1
                       /\ calls = NoCalls
    /\ invocations > 0 /\ pc # "merge" =>
           /\ Len(log) = invocations
           /\ log[invocations] = data
           /\ Snapshot = ( data.symbol :> Entry(data) )
    /\ invocations > 0 /\ pc \notin { "merge", "socket" } => selfData = before

\* C15 witness: the second invocation has ended after a failed sendall and
\* self.data holds its quote, which differs from the first one's.
C15_Witness ==
    /\ Ended /\ invocations = 2 /\ failedAt = "send"
    /\ log[1] # log[2]
    /\ Snapshot[data.symbol] = Entry(log[2])

\* Every symbol of the list has been subscribed, in upper case.
AllSubscribed ==
    /\ asset > Len(symbols)
    /\ \A k \in 1..Len(symbols) : Upper(symbols[k]) \in subscribed

\* C16: the client exists only once the credentials are loaded, a symbol is
\* subscribed only once the client exists, and the feed loop has started only
\* once every symbol of the list is subscribed; no quote is received and the
\* handler is not called before the loop has started.
C16_StartupOrder ==
    /\ feed # "none" => credentials = "loaded"
    /\ subscribed # {} \/ asset > 1 => feed # "none"
    /\ feed \in { "running", "stopped" } => AllSubscribed
    /\ ctor \in { "run", "thread", "returned" } <=> feed \in { "running", "stopped" }
    /\ arrived > 0 \/ invocations > 0 \/ pc # "idle" =>
           /\ AllSubscribed
           /\ feed \in { "running", "stopped" }

\* C16 witness: the loop runs with both symbols of a list of two subscribed,
\* and the handler has been called.
C16_Witness ==
    /\ feed = "running" /\ Len(symbols) = 2 /\ asset = 3
    /\ subscribed = { BTC, ETH } /\ invocations > 0

\* C17: the relay endpoint is the one given on the command line and is
\* fixed.  From the constructor's first assignments on, self.host and
\* self.port are the parsed --host and --port, and every connect is called
\* with that address.
C17_EndpointIsConfigured ==
    /\ ctor # "new" => host = ParsedHost(argv) /\ port = ParsedPort(argv)
    /\ attempts > 0 => target = [ host |-> ParsedHost(argv), port |-> ParsedPort(argv) ]

\* What the code does instead: the endpoint is fixed, its port is the parsed
\* --port, and its host is the default whatever --host says.
C17_HostOptionIgnored ==
    /\ ctor # "new" => host = DefaultHost /\ port = ParsedPort(argv)
    /\ attempts > 0 => target = [ host |-> DefaultHost, port |-> ParsedPort(argv) ]

====
